---- MODULE Spec2Model ----
(***************************************************************************)
(* Model of the hot-restart supervisor of src/starter.go: Starter.Run,     *)
(* Starter.StartWorker, Starter.Teardown, the reaper goroutines, the       *)
(* signal re-send goroutines and the OS (signal delivery, worker exit).    *)
(*                                                                         *)
(* The supervisor is one sequential process whose position is pc; a call   *)
(* of StartWorker is inlined, ret naming the call site it returns to.      *)
(* Goroutines and the OS are separate actions.                             *)
(*                                                                         *)
(* Spec is the supervisor with every configuration explored; FairSpec adds *)
(* the scheduling of the supervisor's own steps for the liveness           *)
(* properties; DelaySpec applies getKillOldDelay to the environments       *)
(* explored.                                                               *)
(*                                                                         *)
(* Platform: the file names syscall.SIGEMT and syscall.SIGINFO, so it      *)
(* builds on darwin/BSD only; os.FindProcess on Unix never fails.          *)
(***************************************************************************)
EXTENDS Integers, Sequences, FiniteSets

\* ------------------------------------------------------------------ bounds

\* spawn attempts (= largest value of the generation counter) in one run
MaxGen == 3
\* signals the OS delivers to the supervisor in one run
MaxSignals == 2

\* ------------------------------------------------------- values and config

\* the signals Run registers for (signal.Notify)
NotifySignals == {"HUP", "INT", "TERM", "QUIT"}

\* a nil os.Signal, an error-free return, an unset string
Nil == "nil"

\* a nil *os.Process (pids start at 1)
NoProcess == 0

\* an environment variable that was never set
Unset == -1

\* a nil net.Listener
NilListener == [addr |-> [host |-> "", port |-> 0], state |-> "nil", closes |-> 0]

\* the port and path specifiers explored; a port specifier is a bare port number
\* (host "") or address:port
PortLists == { <<>>, << [host |-> "", port |-> 8080] >>,
               << [host |-> "", port |-> 8080], [host |-> "127.0.0.1", port |-> 9090] >> }
PathLists == { <<>>, << [host |-> "unix", port |-> 1] >> }

\* KILL_OLD_DELAY and ENABLE_AUTO_RESTART unset, and KILL_OLD_DELAY=1
EnvUnset == [delay |-> <<>>, auto |-> ""]
EnvDelay == [delay |-> <<"1">>, auto |-> ""]

\* the configurations explored, each a Config (Ports(), Paths(), PidFile(),
\* SignalOnHUP(), SignalOnTERM()) with an environment: every listener layout with
\* and without a pid file, and every choice of configured or default signals
Scenarios ==
    { [ports |-> po, paths |-> pa, pidFile |-> pf, signalOnHUP |-> "USR1",
       signalOnTERM |-> "USR2", env |-> EnvUnset] :
        po \in PortLists, pa \in PathLists, pf \in { "", "pid" } }
    \cup
    { [ports |-> << [host |-> "", port |-> 8080] >>, paths |-> <<>>, pidFile |-> "pid",
       signalOnHUP |-> sh, signalOnTERM |-> st, env |-> EnvDelay] :
        sh \in { Nil, "USR1" }, st \in { Nil, "USR2" } }

\* the configurations of the runs checked for liveness: two ports and a pid file,
\* a port and a path, and default signals with KILL_OLD_DELAY=1
FairScenarios ==
    { c \in Scenarios :
        /\ c.pidFile = "pid"
        /\ \/ Len(c.ports) + Len(c.paths) = 2
           \/ c.env = EnvDelay /\ c.signalOnHUP = Nil /\ c.signalOnTERM = Nil }

\* ------------------------------------------------------------------- state

VARIABLES
    ports,          \* Starter.ports
    paths,          \* Starter.paths
    pidFile,        \* Starter.pidFile
    signalOnHUP,    \* Starter.signalOnHUP
    signalOnTERM,   \* Starter.signalOnTERM
    listeners,      \* Starter.listeners: [addr, state, closes], state "nil" for nil
    generation,     \* Starter.generation
    env,            \* process environment: generation, port, delay, auto
    pidFileExists,  \* the pid file is on disk
    pc,             \* position of the supervisor
    runErr,         \* what Run returned: Nil (nil error), or an error
    li,             \* Run: index of the listener loop
    p,              \* Run: the current worker (a pid, or NoProcess)
    oldWorkers,     \* Run: map pid -> generation
    sigReceived,    \* Run: sigReceived
    sigToSend,      \* Run: sigToSend
    sigCh,          \* Run: sigCh, a channel of capacity 1
    resend,         \* the blocked goroutines `sigCh <- sig`: signal -> how many
    ret,            \* StartWorker: the call site to return to
    pid,            \* StartWorker: pid of the attempt
    sigs,           \* StartWorker: signals taken during the interval
    procs,          \* the processes started: pid -> record
    nsignals,       \* number of signals the OS has delivered
    hupLog,         \* Run: number of "received HUP" lines written to stderr
    killOldDelay    \* Run: killOldDelay, in seconds

vars == << ports, paths, pidFile, signalOnHUP, signalOnTERM, listeners, generation,
           env, pidFileExists, pc, runErr, li, p, oldWorkers, sigReceived, sigToSend,
           sigCh, resend, ret, pid, sigs, procs, nsignals, hupLog, killOldDelay >>

config == << ports, paths, pidFile, signalOnHUP, signalOnTERM >>

\* ----------------------------------------------------------------- helpers

\* the empty map
EmptyMap == [x \in {} |-> 0]

\* m with key k set to v
MapPut(m, k, v) == [x \in (DOMAIN m) \cup {k} |-> IF x = k THEN v ELSE m[x]]

\* NewStarter: a nil configured signal defaults to SIGTERM
DefaultSignal(s) == IF s = Nil THEN "TERM" ELSE s

\* Run: a bare port number listens on the wildcard address, otherwise on the address
ListenAddr(spec) == IF spec.host = "" THEN [host |-> "*", port |-> spec.port] ELSE spec

\* NewStarter: the state after construction
NewStarter(c) ==
    /\ ports = c.ports
    /\ paths = c.paths
    /\ pidFile = c.pidFile
    /\ signalOnHUP = DefaultSignal(c.signalOnHUP)
    /\ signalOnTERM = DefaultSignal(c.signalOnTERM)
    /\ listeners = [i \in 1 .. (Len(c.ports) + Len(c.paths)) |-> NilListener]
    /\ generation = 0
    /\ env = [generation |-> Unset, port |-> <<>>, delay |-> c.env.delay, auto |-> c.env.auto]

\* the state when Run is called on a Starter built from one of the configurations cs
InitWith(cs) ==
    /\ \E c \in cs : NewStarter(c)
    /\ pidFileExists = FALSE
    /\ pc = "pidfile"
    /\ runErr = Nil
    /\ li = 1
    /\ p = NoProcess
    /\ oldWorkers = EmptyMap
    /\ sigReceived = Nil
    /\ sigToSend = Nil
    /\ sigCh = <<>>
    /\ resend = [s \in NotifySignals |-> 0]
    /\ ret = Nil
    /\ pid = -1
    /\ sigs = <<>>
    /\ procs = EmptyMap
    /\ nsignals = 0
    /\ hupLog = 0
    /\ killOldDelay = 0

Init == InitWith(Scenarios)

\* ------------------------------------------------------------ Run: startup

\* Run: the pid file is created and written (or there is none configured)
RunPidFile ==
    /\ pc = "pidfile"
    /\ pidFileExists' = (pidFile # "")
    /\ pc' = "listen"
    /\ UNCHANGED << config, hupLog, killOldDelay, listeners, generation, env, runErr, li,
                    p, oldWorkers, sigReceived, sigToSend, sigCh, resend, ret, pid, sigs,
                    procs, nsignals >>

\* Run: os.OpenFile of the pid file fails; Run returns the error
RunPidFileFail ==
    /\ pc = "pidfile"
    /\ pidFile # ""
    /\ runErr' = "pidfile"
    /\ pc' = "teardown"
    /\ UNCHANGED << config, hupLog, killOldDelay, listeners, generation, env,
                    pidFileExists, li, p, oldWorkers, sigReceived, sigToSend, sigCh,
                    resend, ret, pid, sigs, procs, nsignals >>

\* Run: net.Listen succeeds for s.ports[li]
RunListen ==
    /\ pc = "listen"
    /\ li <= Len(ports)
    /\ listeners' = [listeners EXCEPT ![li] =
                        [addr |-> ListenAddr(ports[li]), state |-> "open", closes |-> 0]]
    /\ li' = li + 1
    /\ UNCHANGED << config, hupLog, killOldDelay, generation, env, pidFileExists, pc,
                    runErr, p, oldWorkers, sigReceived, sigToSend, sigCh, resend, ret, pid,
                    sigs, procs, nsignals >>

\* Run: net.Listen fails for s.ports[li]; Run returns the error
RunListenFail ==
    /\ pc = "listen"
    /\ li <= Len(ports)
    /\ runErr' = "listen"
    /\ pc' = "teardown"
    /\ UNCHANGED << config, hupLog, killOldDelay, listeners, generation, env,
                    pidFileExists, li, p, oldWorkers, sigReceived, sigToSend, sigCh,
                    resend, ret, pid, sigs, procs, nsignals >>

\* Run: after the listener loop: generation 0 is exported, the signal channel is
\* registered, and StartWorker is called for the first worker
RunLaunch ==
    /\ pc = "listen"
    /\ li > Len(ports)
    /\ generation' = 0
    /\ env' = [env EXCEPT !.generation = 0]
    /\ ret' = "first"
    /\ pc' = "spawn"
    /\ UNCHANGED << config, hupLog, killOldDelay, listeners, pidFileExists, runErr, li, p,
                    oldWorkers, sigReceived, sigToSend, sigCh, resend, pid, sigs, procs,
                    nsignals >>

\* ---------------------------------------------------------------- Teardown

\* a Teardown that closes the listeners only when the startup had opened them all
CloseIfComplete(ls) ==
    IF \E i \in DOMAIN ls : ls[i] = NilListener THEN ls
    ELSE [i \in DOMAIN ls |-> [ls[i] EXCEPT !.state = "closed", !.closes = ls[i].closes + 1]]

\* Teardown: every non-nil listener is closed
CloseListeners(ls) ==
    [i \in DOMAIN ls |->
        IF ls[i] = NilListener THEN NilListener
        ELSE [ls[i] EXCEPT !.state = "closed", !.closes = ls[i].closes + 1]]

\* a Teardown that leaves the pid file on disk
KeepPidFile(exists) == exists

\* Teardown: the pid file is removed when one is configured
RemovePidFile(exists) == IF pidFile # "" THEN FALSE ELSE exists

\* the deferred Teardown, after which Run has returned (or the panic has unwound)
Teardown ==
    /\ pc = "teardown"
    /\ pidFileExists' = RemovePidFile(pidFileExists)
    /\ listeners' = CloseListeners(listeners)
    /\ pc' = IF runErr = "panic" THEN "crashed" ELSE "done"
    /\ UNCHANGED << config, hupLog, killOldDelay, generation, env, runErr, li, p, oldWorkers,
                    sigReceived, sigToSend, sigCh, resend, ret, pid, sigs, procs, nsignals >>

\* ------------------------------------------------------------- environment

\* the value of a decimal digit, -1 for any other character
DigitVal(c) ==
    CASE c = "0" -> 0 [] c = "1" -> 1 [] c = "2" -> 2 [] c = "3" -> 3 [] c = "4" -> 4
      [] c = "5" -> 5 [] c = "6" -> 6 [] c = "7" -> 7 [] c = "8" -> 8 [] c = "9" -> 9
      [] OTHER -> -1

RECURSIVE ParseDigits(_, _)
\* the number written by the digits ds after the prefix worth acc; -1 on a non-digit
ParseDigits(ds, acc) ==
    IF ds = <<>> THEN acc
    ELSE IF DigitVal(Head(ds)) < 0 THEN -1
    ELSE ParseDigits(Tail(ds), acc * 10 + DigitVal(Head(ds)))

\* strconv.ParseInt(s, 10, 0) with the error ignored: 0 on a syntax error.
\* s is the string as a sequence of characters.
ParseInt(s) ==
    LET signed == s # <<>> /\ Head(s) \in {"+", "-"}
        ds     == IF signed THEN Tail(s) ELSE s
        n      == IF ds = <<>> THEN -1 ELSE ParseDigits(ds, 0)
    IN  IF n < 0 THEN 0
        ELSE IF signed /\ Head(s) = "-" THEN 0 - n ELSE n

\* strconv.ParseBool(s) with the error ignored: false on a syntax error
ParseBool(s) == s \in {"1", "t", "T", "TRUE", "true", "True"}

\* getKillOldDelay, in seconds
getKillOldDelay(e) ==
    LET delay == ParseInt(e.delay)
        autoRestart == ParseBool(e.auto)
    IN  IF autoRestart /\ delay = 0 THEN 5 ELSE delay

\* the values of KILL_OLD_DELAY explored, as character sequences: unset, not a
\* base-10 integer, negative, zero, positive. `numeric` and `value` give what the
\* text denotes.
DelayInputs ==
    { [text |-> << >>, numeric |-> FALSE, value |-> 0],
      [text |-> << "a" >>, numeric |-> FALSE, value |-> 0],
      [text |-> << "-" >>, numeric |-> FALSE, value |-> 0],
      [text |-> << "3", "s" >>, numeric |-> FALSE, value |-> 0],
      [text |-> << " ", "3" >>, numeric |-> FALSE, value |-> 0],
      [text |-> << "1", ".", "5" >>, numeric |-> FALSE, value |-> 0],
      [text |-> << "-", "3" >>, numeric |-> TRUE, value |-> 0 - 3],
      [text |-> << "-", "1", "0" >>, numeric |-> TRUE, value |-> 0 - 10],
      [text |-> << "0" >>, numeric |-> TRUE, value |-> 0],
      [text |-> << "-", "0" >>, numeric |-> TRUE, value |-> 0],
      [text |-> << "0", "0" >>, numeric |-> TRUE, value |-> 0],
      [text |-> << "1" >>, numeric |-> TRUE, value |-> 1],
      [text |-> << "+", "2" >>, numeric |-> TRUE, value |-> 2],
      [text |-> << "0", "7" >>, numeric |-> TRUE, value |-> 7],
      [text |-> << "3", "0" >>, numeric |-> TRUE, value |-> 30],
      [text |-> << "1", "2", "0" >>, numeric |-> TRUE, value |-> 120] }

\* the values of ENABLE_AUTO_RESTART explored, `enabled` for those that are true
AutoInputs ==
    { [text |-> "", enabled |-> FALSE], [text |-> "0", enabled |-> FALSE],
      [text |-> "false", enabled |-> FALSE], [text |-> "yes", enabled |-> FALSE],
      [text |-> "on", enabled |-> FALSE], [text |-> "tRuE", enabled |-> FALSE],
      [text |-> "1", enabled |-> TRUE], [text |-> "t", enabled |-> TRUE],
      [text |-> "true", enabled |-> TRUE], [text |-> "TRUE", enabled |-> TRUE] }

\* ------------------------------------------------------------- StartWorker

\* SERVER_STARTER_PORT: one spec=fd pair per listener, fd = index + 3 (from 0)
PortEnv(ps, ls) == [i \in 1 .. Len(ls) |-> [spec |-> ps[i], fd |-> (i - 1) + 3]]

\* cmd.ExtraFiles: descriptor (index + 3) of the child is a duplicate of listener index
ExtraFiles(ls) == [i \in 1 .. Len(ls) |-> [fd |-> (i - 1) + 3, addr |-> ls[i].addr]]

\* an export made before the counter is incremented
ExportEnvStale(e, gen, ps, ls) == [e EXCEPT !.port = PortEnv(ps, ls), !.generation = gen - 1]

\* the environment exported before cmd.Start: the port list and the generation
ExportEnv(e, gen, ps, ls) == [e EXCEPT !.port = PortEnv(ps, ls), !.generation = gen]

\* s.generation++
NextGeneration(g) == g + 1

\* the pid the OS gives the next process (pids are not reused within a run)
NewPid == Cardinality(DOMAIN procs) + 1

\* os.FindProcess(q): TRUE when it returns an error. On Unix it always succeeds,
\* whether or not the process exists.
FindProcessErr(q) == FALSE

\* gotSig: some signal taken during the interval is not SIGHUP
GotSig(ss) == \E i \in 1 .. Len(ss) : ss[i] # "HUP"

\* the acceptance check of StartWorker: gotSig || err == nil
Accepted(ss, q) == GotSig(ss) \/ ~FindProcessErr(q)

\* the values the goroutines `go func() { sigCh <- sig }()` send: the closures share
\* the loop variable sig, so goroutine i sends what sig holds when it runs, the
\* value of iteration i or of a later iteration
Resends(ss) == { v \in [1 .. Len(ss) -> NotifySignals] :
                    \A i \in 1 .. Len(ss) : \E j \in i .. Len(ss) : v[i] = ss[j] }

\* the blocked senders r with those of v added
AddResends(r, v) ==
    [s \in DOMAIN r |-> r[s] + Cardinality({i \in 1 .. Len(v) : v[i] = s})]

\* a fan-out that sends SIGTERM whatever signal it is given
SignalWorkersTerm(ps, old, sig) ==
    [q \in DOMAIN ps |->
        IF q \in DOMAIN old THEN [ps[q] EXCEPT !.signals = Append(@, "TERM")] ELSE ps[q]]

\* worker.Signal(sig) for every pid of the map old
SignalWorkers(ps, old, sig) ==
    [q \in DOMAIN ps |->
        IF q \in DOMAIN old THEN [ps[q] EXCEPT !.signals = Append(@, sig)] ELSE ps[q]]

\* an accepted process that gets no reaper
StartNoReaper(ps, q) == ps

\* a reaper that is started only for a process still running when it is accepted
StartReaperIfAlive(ps, q) == IF ps[q].alive THEN [ps EXCEPT ![q].reaper = "waiting"] ELSE ps

\* the reaper goroutine of q is started
StartReaper(ps, q) == [ps EXCEPT ![q].reaper = "waiting"]

\* StartWorker: a listener is nil (Run never opens s.paths), so the type assertion
\* l.(*net.TCPListener) panics. The listeners do not change after startup, so this
\* is the first call, before the drain closure is deferred: only Teardown runs.
SWPanic ==
    /\ pc = "spawn"
    /\ \E i \in 1 .. Len(listeners) : listeners[i] = NilListener
    /\ runErr' = "panic"
    /\ pc' = "teardown"
    /\ UNCHANGED << config, hupLog, killOldDelay, listeners, generation, env,
                    pidFileExists, li, p, oldWorkers, sigReceived, sigToSend, sigCh,
                    resend, ret, pid, sigs, procs, nsignals >>

\* StartWorker: one attempt whose cmd.Start fails: the generation is consumed, the
\* loop goes round
SWStartFail ==
    /\ pc = "spawn"
    /\ \A i \in 1 .. Len(listeners) : listeners[i] # NilListener
    /\ generation < MaxGen
    /\ generation' = NextGeneration(generation)
    /\ env' = ExportEnv(env, generation', ports, listeners)
    /\ pid' = -1
    /\ UNCHANGED << config, hupLog, killOldDelay, listeners, pidFileExists, pc, runErr, li,
                    p, oldWorkers, sigReceived, sigToSend, sigCh, resend, ret, sigs, procs,
                    nsignals >>

\* StartWorker: one attempt whose cmd.Start succeeds: the child inherits the
\* environment and the descriptors; the interval wait starts
SWStart ==
    /\ pc = "spawn"
    /\ \A i \in 1 .. Len(listeners) : listeners[i] # NilListener
    /\ generation < MaxGen
    /\ generation' = NextGeneration(generation)
    /\ env' = ExportEnv(env, generation', ports, listeners)
    /\ pid' = NewPid
    /\ procs' = MapPut(procs, NewPid,
                       [alive |-> TRUE, generation |-> generation',
                        envGeneration |-> env'.generation, envPort |-> env'.port,
                        files |-> ExtraFiles(listeners), signals |-> <<>>,
                        reaper |-> "none"])
    /\ sigs' = <<>>
    /\ pc' = "interval"
    /\ UNCHANGED << config, hupLog, killOldDelay, listeners, pidFileExists, runErr, li, p,
                    oldWorkers, sigReceived, sigToSend, sigCh, resend, ret, nsignals >>

\* StartWorker: a signal is taken from sigCh during the interval
SWTakeSignal ==
    /\ pc = "interval"
    /\ sigCh # <<>>
    /\ sigs' = Append(sigs, Head(sigCh))
    /\ sigCh' = Tail(sigCh)
    /\ UNCHANGED << config, hupLog, killOldDelay, listeners, generation, env,
                    pidFileExists, pc, runErr, li, p, oldWorkers, sigReceived, sigToSend,
                    resend, ret, pid, procs, nsignals >>

\* a restart branch that signals the old workers without sleeping the kill delay
AfterRestartNoDelay(ps) ==
    /\ procs' = SignalWorkers(ps, oldWorkers, signalOnHUP)
    /\ pc' = "select"
    /\ killOldDelay' = getKillOldDelay(env)

\* Run, restart branch after StartWorker returned q: the old workers are signalled
\* at once when the kill delay is 0, after the sleep otherwise
AfterRestart(ps) ==
    IF Cardinality(DOMAIN oldWorkers) = 0
    THEN /\ procs' = ps
         /\ pc' = "select"
         /\ UNCHANGED killOldDelay
    ELSE /\ killOldDelay' = getKillOldDelay(env)
         /\ IF killOldDelay' > 0
            THEN /\ procs' = ps
                 /\ pc' = "sleep"
            ELSE /\ procs' = SignalWorkers(ps, oldWorkers, signalOnHUP)
                 /\ pc' = "select"

\* StartWorker: the interval elapses. The signals taken are re-sent by goroutines;
\* an accepted process gets its reaper and is returned to the call site, a rejected
\* one is waited for and the loop goes round.
SWTimeout ==
    /\ pc = "interval"
    /\ \E v \in Resends(sigs) : resend' = AddResends(resend, v)
    /\ IF Accepted(sigs, pid)
       THEN /\ p' = IF FindProcessErr(pid) THEN NoProcess ELSE pid
            /\ IF ret = "hup"
               THEN AfterRestart(StartReaper(procs, pid))
               ELSE /\ procs' = StartReaper(procs, pid)
                    /\ pc' = "select"
                    /\ UNCHANGED killOldDelay
       ELSE /\ pc' = "spawn"
            /\ UNCHANGED << p, procs, killOldDelay >>
    /\ UNCHANGED << config, hupLog, listeners, generation, env, pidFileExists, runErr, li,
                    oldWorkers, sigReceived, sigToSend, sigCh, ret, pid, sigs, nsignals >>

\* ------------------------------------------------------- Run: steady state

\* the pids whose reaper is blocked sending the exit event on workerCh
ExitEvents == { q \in DOMAIN procs : ~procs[q].alive /\ procs[q].reaper = "waiting" }

\* a delete that empties the map instead of removing one key
DeleteAll(old, q) == [x \in {} |-> 0]

\* a delete that removes the oldest worker of the map whatever pid the event carries
DeleteOldest(old, q) ==
    [x \in { y \in DOMAIN old : \E z \in DOMAIN old : z < y } |-> old[x]]

\* delete(oldWorkers, q)
Delete(old, q) == [x \in (DOMAIN old) \ {q} |-> old[x]]

\* a restart condition that restarts on every HUP
RestartAlways(restart, old) == restart > 0

\* a demotion that records the generation the replacement is going to get
DemoteNext(old, q, gen) == MapPut(old, q, gen + 1)

\* oldWorkers[p.Pid] = s.generation
Demote(old, q, gen) == MapPut(old, q, gen)

\* the restart condition, restart being 1 after a HUP
RestartCond(restart, old) ==
    restart > 1 \/ (restart > 0 /\ Cardinality(DOMAIN old) = 0)

\* a select that demotes the dead current worker into the old-worker set
RecvCurrentExitDemote ==
    /\ pc = "select"
    /\ p \in ExitEvents
    /\ procs' = [procs EXCEPT ![p].reaper = "done"]
    /\ oldWorkers' = Demote(oldWorkers, p, generation)
    /\ ret' = "respawn"
    /\ pc' = "spawn"
    /\ UNCHANGED << config, hupLog, killOldDelay, listeners, generation, env, pidFileExists,
                    runErr, li, p, sigReceived, sigToSend, sigCh, resend, pid, sigs, nsignals >>

\* select: the exit event of the current worker is received; StartWorker is called
RecvCurrentExit ==
    /\ pc = "select"
    /\ p \in ExitEvents
    /\ procs' = [procs EXCEPT ![p].reaper = "done"]
    /\ ret' = "respawn"
    /\ pc' = "spawn"
    /\ UNCHANGED << config, hupLog, killOldDelay, listeners, generation, env,
                    pidFileExists, runErr, li, p, oldWorkers, sigReceived, sigToSend,
                    sigCh, resend, pid, sigs, nsignals >>

\* select: the exit event of another worker is received
RecvOldExit ==
    /\ pc = "select"
    /\ \E q \in ExitEvents \ {p} :
          /\ procs' = [procs EXCEPT ![q].reaper = "done"]
          /\ oldWorkers' = Delete(oldWorkers, q)
    /\ UNCHANGED << config, hupLog, killOldDelay, listeners, generation, env,
                    pidFileExists, pc, runErr, li, p, sigReceived, sigToSend, sigCh,
                    resend, ret, pid, sigs, nsignals >>

\* select: SIGHUP is received: with no old worker the current one is demoted and
\* StartWorker is called; otherwise nothing more happens
RecvHUP ==
    /\ pc = "select"
    /\ sigCh # <<>> /\ Head(sigCh) = "HUP"
    /\ sigCh' = Tail(sigCh)
    /\ sigReceived' = "HUP"
    /\ hupLog' = hupLog + 1
    /\ sigToSend' = signalOnHUP
    /\ IF RestartCond(1, oldWorkers)
       THEN /\ oldWorkers' = Demote(oldWorkers, p, generation)
            /\ ret' = "hup"
            /\ pc' = "spawn"
       ELSE UNCHANGED << oldWorkers, ret, pc >>
    /\ UNCHANGED << config, killOldDelay, listeners, generation, env, pidFileExists, runErr,
                    li, p, resend, pid, sigs, procs, nsignals >>

\* a shutdown that sends the configured TERM-signal whatever signal was received
ShutdownSignalConfigured(sig) == signalOnTERM

\* the signal Run sends on shutdown: the configured one on TERM, SIGTERM otherwise
ShutdownSignal(sig) == IF sig = "TERM" THEN signalOnTERM ELSE "TERM"

\* a drain loop that stops with one worker left
DrainedEarly(old) == Cardinality(DOMAIN old) <= 1

\* the drain loop is over when the map is empty
Drained(old) == Cardinality(DOMAIN old) = 0

\* select: TERM, INT or QUIT is received: Run returns nil; the deferred closure
\* demotes the current worker, signals every worker and starts draining
RecvShutdown ==
    /\ pc = "select"
    /\ sigCh # <<>> /\ Head(sigCh) # "HUP"
    /\ sigCh' = Tail(sigCh)
    /\ sigReceived' = Head(sigCh)
    /\ sigToSend' = ShutdownSignal(Head(sigCh))
    /\ oldWorkers' = IF p # NoProcess THEN Demote(oldWorkers, p, generation) ELSE oldWorkers
    /\ procs' = SignalWorkers(procs, oldWorkers', sigToSend')
    /\ pc' = IF Drained(oldWorkers') THEN "teardown" ELSE "drain"
    /\ UNCHANGED << config, hupLog, killOldDelay, listeners, generation, env,
                    pidFileExists, runErr, li, p, resend, ret, pid, sigs, nsignals >>

\* the kill delay has elapsed: the old workers are signalled
SleepElapsed ==
    /\ pc = "sleep"
    /\ procs' = SignalWorkers(procs, oldWorkers, signalOnHUP)
    /\ pc' = "select"
    /\ UNCHANGED << config, hupLog, killOldDelay, listeners, generation, env,
                    pidFileExists, runErr, li, p, oldWorkers, sigReceived, sigToSend,
                    sigCh, resend, ret, pid, sigs, nsignals >>

\* the drain loop of the deferred closure receives one exit event
DrainRecv ==
    /\ pc = "drain"
    /\ \E q \in ExitEvents :
          /\ procs' = [procs EXCEPT ![q].reaper = "done"]
          /\ oldWorkers' = Delete(oldWorkers, q)
    /\ pc' = IF Drained(oldWorkers') THEN "teardown" ELSE "drain"
    /\ UNCHANGED << config, hupLog, killOldDelay, listeners, generation, env,
                    pidFileExists, runErr, li, p, sigReceived, sigToSend, sigCh, resend,
                    ret, pid, sigs, nsignals >>

\* ------------------------------------------------- goroutines and the OS

\* the supervisor process is running with its signal channel registered
Registered == pc \in {"spawn", "interval", "select", "sleep", "drain"}

\* the OS delivers a signal: signal.Notify sends without blocking, so the signal
\* is dropped when the channel is full
OSSignal ==
    /\ Registered
    /\ nsignals < MaxSignals
    /\ nsignals' = nsignals + 1
    /\ \E s \in NotifySignals :
          sigCh' = IF Len(sigCh) < 1 THEN Append(sigCh, s) ELSE sigCh
    /\ UNCHANGED << config, hupLog, killOldDelay, listeners, generation, env,
                    pidFileExists, pc, runErr, li, p, oldWorkers, sigReceived, sigToSend,
                    resend, ret, pid, sigs, procs >>

\* a goroutine `sigCh <- sig` gets its signal into the channel
ResendDeliver ==
    /\ Registered
    /\ Len(sigCh) < 1
    /\ \E s \in NotifySignals :
          /\ resend[s] > 0
          /\ resend' = [resend EXCEPT ![s] = @ - 1]
          /\ sigCh' = Append(sigCh, s)
    /\ UNCHANGED << config, hupLog, killOldDelay, listeners, generation, env,
                    pidFileExists, pc, runErr, li, p, oldWorkers, sigReceived, sigToSend,
                    ret, pid, sigs, procs, nsignals >>

\* a worker process exits (of its own accord or because of a signal)
WorkerExit ==
    /\ Registered
    /\ \E q \in DOMAIN procs :
          /\ procs[q].alive
          /\ procs' = [procs EXCEPT ![q].alive = FALSE]
    /\ UNCHANGED << config, hupLog, killOldDelay, listeners, generation, env,
                    pidFileExists, pc, runErr, li, p, oldWorkers, sigReceived, sigToSend,
                    sigCh, resend, ret, pid, sigs, nsignals >>

Next ==
    \/ SWPanic
    \/ SWStartFail
    \/ SWStart
    \/ SWTakeSignal
    \/ SWTimeout
    \/ RecvCurrentExit
    \/ RecvOldExit
    \/ RecvHUP
    \/ RecvShutdown
    \/ SleepElapsed
    \/ DrainRecv
    \/ OSSignal
    \/ ResendDeliver
    \/ WorkerExit
    \/ RunPidFile
    \/ RunPidFileFail
    \/ RunListen
    \/ RunListenFail
    \/ RunLaunch
    \/ Teardown

Spec == Init /\ [][Next]_vars

\* The scheduling of the Go runtime: the supervisor goroutine takes the step it is
\* ready for. A timer it waits for fires (the interval, the kill delay), a receive
\* from workerCh on which a reaper is blocked meets it, and the deferred calls run
\* when Run returns. Nothing is assumed of the workers, of the signals the OS
\* delivers, or of exec ever succeeding.
Fairness ==
    /\ WF_vars(SWTimeout)
    /\ WF_vars(SleepElapsed)
    /\ WF_vars(RecvCurrentExit)
    /\ WF_vars(RecvOldExit)
    /\ WF_vars(DrainRecv)
    /\ WF_vars(Teardown)

\* getKillOldDelay on its own: the environment is drawn from the values explored
\* and the function is called once
DelayScenarios ==
    { [ports |-> << [host |-> "", port |-> 8080] >>, paths |-> << >>, pidFile |-> "",
       signalOnHUP |-> Nil, signalOnTERM |-> Nil,
       env |-> [delay |-> d.text, auto |-> a.text]] :
        d \in DelayInputs, a \in AutoInputs }

DelayInit == InitWith(DelayScenarios)

\* killOldDelay := getKillOldDelay()
CallGetKillOldDelay ==
    /\ pc = "pidfile"
    /\ killOldDelay' = getKillOldDelay(env)
    /\ pc' = "returned"
    /\ UNCHANGED << config, hupLog, listeners, generation, env, pidFileExists, runErr, li, p,
                    oldWorkers, sigReceived, sigToSend, sigCh, resend, ret, pid, sigs, procs,
                    nsignals >>

DelayNext == CallGetKillOldDelay

DelaySpec == DelayInit /\ [][DelayNext]_vars

FairInit == InitWith(FairScenarios)

FairSpec == FairInit /\ [][Next]_vars /\ Fairness

\* ------------------------------------------------------------------ claims

\* the signals a process has been sent
SentTo(q) == { procs[q].signals[i] : i \in 1 .. Len(procs[q].signals) }

\* the step in which the select of the supervisor loop consumes a HUP
HUPConsumed == pc = "select" /\ sigCh # <<>> /\ Head(sigCh) = "HUP" /\ sigCh' = Tail(sigCh)

\* the step in which StartWorker returns to the restart branch of Run
HUPReturn == pc = "interval" /\ ret = "hup" /\ pc' \in {"select", "sleep"}

\* the step that ends the handling of a HUP that restarted
HUPProcessed == pc \in {"interval", "sleep"} /\ ret = "hup" /\ pc' = "select"

\* C1: when Run has returned after TERM, INT or QUIT, the old-worker set is empty
\* and the exit event of every worker StartWorker accepted, the current worker and
\* every worker of the old-worker set among them, has been consumed.
C1_DrainedAtReturn ==
    (pc = "done" /\ runErr = Nil) =>
        /\ sigReceived \in {"TERM", "INT", "QUIT"}
        /\ Cardinality(DOMAIN oldWorkers) = 0
        /\ p \in DOMAIN procs /\ procs[p].reaper = "done"
        /\ \A q \in DOMAIN procs : procs[q].reaper # "waiting"

\* C1 witness: Run has returned after TERM with a current worker and an old worker,
\* the latter signalled at the HUP and again at the shutdown.
C1_Witness ==
    /\ pc = "done" /\ runErr = Nil /\ sigReceived = "TERM"
    /\ signalOnHUP = "USR1" /\ signalOnTERM = "USR2"
    /\ procs[p].signals = << "USR2" >>
    /\ \E q \in DOMAIN procs : q # p /\ procs[q].signals = << "USR1", "USR2" >>

SWReturn == pc = "interval" /\ pc' \in {"select", "sleep"}

\* the step in which the liveness interval of StartWorker ends
IntervalEnds == pc = "interval" /\ pc' # "interval"

\* C4 as stated: whatever happened during the interval, the handle StartWorker
\* returns is not nil and names a process that is alive when it returns.
C4_Original == [][SWReturn => (p' # NoProcess /\ procs'[p'].alive)]_vars

\* C5 as stated: a process that exited within the interval, no signal having
\* arrived, is not returned: StartWorker goes round for another attempt.
C5_Original ==
    [][(IntervalEnds /\ sigs = <<>> /\ ~procs[pid].alive) => (pc' = "spawn" /\ p' = p)]_vars

\* C6: the generation counter is 0 until the first attempt, goes up by exactly 1 in
\* every spawn attempt, failed or not, and changes in no other step; a process is
\* started with SERVER_STARTER_GENERATION equal to the counter, so the generations
\* of the processes started are strictly increasing in spawn order.
C6_Generation ==
    [][ /\ (pc \in {"pidfile", "listen"} => generation = 0)
        /\ ((SWStart \/ SWStartFail) => generation' = generation + 1)
        /\ (~(SWStart \/ SWStartFail) => generation' = generation)
        /\ \A q \in DOMAIN procs' :
              /\ q \notin DOMAIN procs =>
                    (procs'[q].envGeneration = generation' /\ procs'[q].generation = generation')
              /\ q \in DOMAIN procs =>
                    (procs'[q].envGeneration = procs[q].envGeneration
                        /\ procs'[q].generation = procs[q].generation)
              /\ \A r \in DOMAIN procs' : q < r => procs'[q].generation < procs'[r].generation
      ]_vars

\* C6 witness: a process was started after a failed attempt, so its generation is
\* ahead of its pid, and the environment carries the generation of the last attempt.
C6_Witness ==
    \E q \in DOMAIN procs :
        /\ procs[q].generation > q
        /\ procs[q].envGeneration = procs[q].generation
        /\ generation = MaxGen /\ env.generation = MaxGen

\* every configured port and path has an open listener, in declared order, and
\* every process started has listener i at descriptor 3 + i
ListenersAsConfigured ==
    LET specs == ports \o paths
    IN  /\ Len(listeners) = Len(specs)
        /\ \A i \in 1 .. Len(specs) :
              /\ listeners[i].state = "open"
              /\ listeners[i].addr = ListenAddr(specs[i])
        /\ \A q \in DOMAIN procs :
              /\ Len(procs[q].files) = Len(specs)
              /\ \A i \in 1 .. Len(specs) :
                    /\ procs[q].files[i].fd = 3 + (i - 1)
                    /\ procs[q].files[i].addr = listeners[i].addr

\* C7 as stated: from the end of the startup to the final teardown the open
\* listeners are the configured ports followed by the configured paths, unchanged
\* across worker replacements, and handed to every worker at descriptors 3 + i.
C7_Original == Registered => ListenersAsConfigured

\* C8: when Run has returned the error of a failed bind, no process was ever
\* started, the generation is 0 and was never exported, no listener is left open
\* and the pid file is gone.
C8_BindFailure ==
    (pc = "done" /\ runErr = "listen") =>
        /\ DOMAIN procs = {}
        /\ generation = 0 /\ env.generation = Unset
        /\ p = NoProcess
        /\ \A i \in 1 .. Len(listeners) : listeners[i].state # "open"
        /\ ~pidFileExists

\* C8 witness: Run has returned the error of the second bind, the first listener
\* having been opened, with a pid file configured.
C8_Witness ==
    /\ pc = "done" /\ runErr = "listen" /\ li = 2 /\ pidFile # ""
    /\ listeners[1].state = "closed" /\ listeners[2] = NilListener

\* C9: a listener changes only in the step that opens it and in Teardown; after a
\* shutdown signal Teardown runs only once the old-worker set is empty; no listener
\* is closed twice, and when Run is over every listener that was opened has been
\* closed exactly once.
C9_ClosedOnlyAtTeardown ==
    [][ /\ \A i \in 1 .. Len(listeners) :
              /\ (listeners[i].state = "open" /\ listeners'[i] # listeners[i]) => pc = "teardown"
              /\ listeners'[i].closes <= 1
              /\ (pc' \in {"done", "crashed"} /\ listeners'[i] # NilListener) =>
                    (listeners'[i].state = "closed" /\ listeners'[i].closes = 1)
        /\ (pc' = "teardown" /\ runErr' = Nil) => Cardinality(DOMAIN oldWorkers') = 0
        /\ (pc \in {"select", "sleep", "drain", "interval", "spawn"} /\ pc' # "teardown") =>
              listeners' = listeners
      ]_vars

\* C9 witness: Run has returned after a shutdown signal that found an old worker
\* draining, and both listeners have been closed once.
C9_Witness ==
    /\ pc = "done" /\ runErr = Nil /\ hupLog > 0
    /\ Cardinality(DOMAIN procs) >= 2
    /\ Len(listeners) = 2
    /\ \A i \in 1 .. 2 : listeners[i].state = "closed" /\ listeners[i].closes = 1

\* the blocked senders r with one sender added for every signal of ss
AddEach(r, ss) == [s \in DOMAIN r |-> r[s] + Cardinality({i \in 1 .. Len(ss) : ss[i] = s})]

\* C10 as stated: when the interval ends, every signal taken from the channel is
\* put back with the same value, once per signal taken.
C10_Original == [][IntervalEnds => resend' = AddEach(resend, sigs)]_vars
\* the step in which the select consumes a TERM while the current worker is the
\* only one
TermAtSingle ==
    /\ pc = "select" /\ sigCh # <<>> /\ Head(sigCh) = "TERM" /\ sigCh' = Tail(sigCh)
    /\ Cardinality(DOMAIN oldWorkers) = 0

\* the drain after a TERM waits for the current worker only, and it has exited
LastWorkerExited ==
    /\ pc = "drain" /\ sigReceived = "TERM"
    /\ DOMAIN oldWorkers = {p} /\ ~procs[p].alive

\* Run has returned nil, the pid file is gone and every listener is closed
ReturnedClean ==
    /\ pc = "done" /\ runErr = Nil
    /\ ~pidFileExists
    /\ \A i \in 1 .. Len(listeners) : listeners[i].state = "closed"

\* C11: a TERM consumed with one current worker and no old worker sends the
\* configured TERM-signal to that worker and starts the drain; once that worker has
\* exited, Run eventually returns nil with the pid file removed and every listener
\* closed.
C11_TermShutdown ==
    /\ [][TermAtSingle =>
            /\ procs'[p].signals = Append(procs[p].signals, signalOnTERM)
            /\ pc' = "drain" /\ DOMAIN oldWorkers' = {p}]_vars
    /\ LastWorkerExited ~> ReturnedClean

C11_Witness ==
    /\ ReturnedClean /\ sigReceived = "TERM"
    /\ DOMAIN procs = {p} /\ procs[p].signals = << "USR2" >> /\ signalOnTERM = "USR2"
    /\ pidFile # "" /\ Len(listeners) = 2

\* the step in which the select consumes the exit event of the current worker
CurrentExitConsumed ==
    pc = "select" /\ p \in ExitEvents /\ procs'[p].reaper = "done"

\* the step sends no signal to any worker
NoSignalSent == \A q \in DOMAIN procs : procs'[q].signals = procs[q].signals

\* the supervisor is inside the StartWorker call made for a dead current worker
InRespawn == ret = "respawn" /\ pc \in {"spawn", "interval"}

\* C12: the step that consumes the exit event of the current worker calls
\* StartWorker; from that step until StartWorker has returned, the old-worker set
\* does not change (the dead pid is not added), no signal is sent to any worker and
\* no kill delay is slept, and the worker StartWorker returns becomes current.
C12_CrashRespawn ==
    [][ /\ CurrentExitConsumed =>
              /\ pc' = "spawn" /\ ret' = "respawn"
              /\ oldWorkers' = oldWorkers
              /\ NoSignalSent
        /\ InRespawn =>
              /\ oldWorkers' = oldWorkers
              /\ NoSignalSent
              /\ pc' \in {"spawn", "interval", "select"}
              /\ pc' = "select" => (p' = pid /\ p' # p /\ p' \notin DOMAIN oldWorkers')
      ]_vars

C12_Witness ==
    /\ pc = "select" /\ ret = "respawn"
    /\ DOMAIN oldWorkers = {1} /\ procs[1].signals = << signalOnHUP >>
    /\ procs[2].reaper = "done" /\ p = 3

\* the pids a step adds to the old-worker set, and those it removes from it
Added == (DOMAIN oldWorkers') \ (DOMAIN oldWorkers)
Removed == (DOMAIN oldWorkers) \ (DOMAIN oldWorkers')

\* the step in which the supervisor consumes the exit event of q
ExitConsumed(q) ==
    pc \in {"select", "drain"} /\ q \in ExitEvents /\ procs'[q].reaper = "done"

\* the step in which the select consumes a TERM, INT or QUIT
ShutdownConsumed ==
    pc = "select" /\ sigCh # <<>> /\ Head(sigCh) # "HUP" /\ sigCh' = Tail(sigCh)

\* the step of the restart branch that calls StartWorker for the replacement
RestartBegins == HUPConsumed /\ pc' = "spawn" /\ ret' = "hup"

\* C13 as stated: a pid is added to the old-worker set only in a step of the
\* promotion of a replacement (the restart branch calls StartWorker for it, or the
\* worker StartWorker returned becomes current), and removed only in a step that
\* consumes an exit event carrying that pid.
C13_Original ==
    [][ /\ \A q \in Added : RestartBegins \/ p' # p
        /\ \A q \in Removed : ExitConsumed(q) ]_vars

\* C13: a pid is added to the old-worker set only as the pid of the current worker,
\* either in the restart branch of a HUP right before StartWorker is called for its
\* replacement, or when TERM, INT or QUIT ends the loop and the current worker is
\* demoted for the drain with no replacement; a pid is removed only in a step that
\* consumes an exit event carrying that pid.
C13_AddedRemoved ==
    [][ /\ \A q \in Added : q = p /\ (RestartBegins \/ ShutdownConsumed)
        /\ \A q \in Removed : ExitConsumed(q) ]_vars

C13_Witness ==
    /\ pc = "drain" /\ hupLog = 1
    /\ DOMAIN procs = {1, 2} /\ p = 2
    /\ DOMAIN oldWorkers = {2} /\ procs[1].reaper = "done"

\* C14: the generation the old-worker set records for a pid is the generation
\* counter value exported to that worker when it was spawned, whatever the counter
\* has become since.
C14_RecordedGeneration ==
    \A q \in DOMAIN oldWorkers :
        /\ q \in DOMAIN procs
        /\ oldWorkers[q] = procs[q].envGeneration

\* C14 witness: the supervisor waits for events while the counter is two attempts
\* ahead of the generation recorded for an old worker
C14_Witness ==
    /\ pc \in {"select", "drain"}
    /\ \E q \in DOMAIN oldWorkers :
          /\ generation = oldWorkers[q] + 2
          /\ procs[q].envGeneration = oldWorkers[q]

\* the supervisor is in the restart branch of a HUP: inside StartWorker, or asleep
InHUPHandling == ret = "hup" /\ pc \in {"spawn", "interval", "sleep"}

\* C15: a step of HUP handling that sends a signal sends the HUP-signal, to the
\* workers of the old-worker set only, and is taken when StartWorker has returned
\* the accepted replacement, which is current and not one of them, and, with a
\* positive kill delay, when the sleep ends; while the supervisor sleeps the
\* replacement is current already.
C15_SignalAfterPromotion ==
    [][ InHUPHandling =>
          /\ pc = "sleep" =>
                (p = pid /\ p \notin DOMAIN oldWorkers /\ procs[p].reaper # "none")
          /\ ~NoSignalSent =>
                /\ \A q \in DOMAIN procs :
                      procs'[q].signals # procs[q].signals =>
                          /\ q \in DOMAIN oldWorkers
                          /\ procs'[q].signals = Append(procs[q].signals, signalOnHUP)
                /\ p' = pid /\ p' \notin DOMAIN oldWorkers'
                /\ procs'[p'].reaper = "waiting" /\ procs'[p'].signals = << >>
                /\ pc' = "select"
                /\ getKillOldDelay(env) > 0 => pc = "sleep"
      ]_vars

C15_Witness ==
    /\ pc = "select" /\ ret = "hup" /\ killOldDelay > 0
    /\ p \notin DOMAIN oldWorkers
    /\ \E q \in DOMAIN oldWorkers : procs[q].signals = << signalOnHUP >>

\* the pids a run can give out
Pids == 1 .. MaxGen

\* q has exited while the supervisor is inside the liveness wait of StartWorker or
\* asleep for the kill delay, and its exit event has not been consumed
ExitedWhileBlocked(q) ==
    /\ pc \in {"interval", "sleep"}
    /\ q \in DOMAIN procs /\ ~procs[q].alive /\ procs[q].reaper # "done"

\* the exit event of q has been consumed
Consumed(q) == q \in DOMAIN procs /\ procs[q].reaper = "done"

C17_ShutdownSignal ==
    [][ /\ ShutdownConsumed =>
              \A q \in DOMAIN procs :
                  procs'[q].signals =
                      IF q = p \/ q \in DOMAIN oldWorkers
                      THEN Append(procs[q].signals,
                                  IF Head(sigCh) = "TERM" THEN signalOnTERM ELSE "TERM")
                      ELSE procs[q].signals
        /\ pc \in {"drain", "teardown", "done"} => NoSignalSent
      ]_vars

\* C17 witness: QUIT after a HUP, with both signals configured: the current worker
\* and the old one got SIGTERM, the old one after the HUP-signal
C17_Witness ==
    /\ pc = "drain" /\ sigReceived = "QUIT" /\ hupLog = 1
    /\ signalOnHUP = "USR1" /\ signalOnTERM = "USR2"
    /\ procs[p].signals = << "TERM" >>
    /\ \E q \in (DOMAIN oldWorkers) \ {p} : procs[q].signals = << "USR1", "TERM" >>

\* what the texts of KILL_OLD_DELAY and ENABLE_AUTO_RESTART in the environment denote
DelayGiven == CHOOSE d \in DelayInputs : d.text = env.delay
AutoGiven == CHOOSE a \in AutoInputs : a.text = env.auto

\* the seconds Run sleeps for a kill delay d: time.Sleep is called only when d > 0
Slept(d) == IF d > 0 THEN d ELSE 0

\* C18 as stated: the kill delay is KILL_OLD_DELAY seconds when that is a positive
\* integer; otherwise 5 seconds with auto restart enabled and no sleep without it.
C18_Original ==
    pc = "returned" =>
        Slept(killOldDelay) =
            IF DelayGiven.numeric /\ DelayGiven.value > 0 THEN DelayGiven.value
            ELSE IF AutoGiven.enabled THEN 5 ELSE 0

\* the pids the supervisor waits for: the old-worker set, and in the steady state
\* the current worker (the drain has it in the old-worker set until it has exited)
Tracked == IF pc = "select" THEN (DOMAIN oldWorkers) \cup {p} ELSE DOMAIN oldWorkers

\* C19: whenever the supervisor waits in the select or in the drain loop, every pid
\* it tracks has a reaper whose exit event is not consumed yet, and every other
\* process started has had its event consumed; no process is without a reaper.
C19_OneReaperPerTracked ==
    pc \in {"select", "drain"} =>
        /\ \A q \in Tracked : q \in DOMAIN procs /\ procs[q].reaper = "waiting"
        /\ \A q \in (DOMAIN procs) \ Tracked : procs[q].reaper = "done"

\* C19 witness: the drain waits for two workers after the event of a third, which
\* had crashed, was consumed
C19_Witness ==
    /\ pc = "drain" /\ Cardinality(DOMAIN oldWorkers) = 2
    /\ \E q \in (DOMAIN procs) \ (DOMAIN oldWorkers) : procs[q].reaper = "done"
    /\ \A q \in DOMAIN oldWorkers : procs[q].reaper = "waiting"

====
